---- MODULE Spec2Model ----
(***************************************************************************)
(* Model of code-indexer/chunk_cs_files.py: the line scanner of            *)
(* extract_chunks.  A line is a sequence of one-character strings; the     *)
(* cursor i is 0-based as in the source, so lines[i] of the source is      *)
(* LineAt(i) here.  One action is one evaluation of a loop test together   *)
(* with the loop body (or loop exit) it selects.                           *)
(*                                                                         *)
(* method_name (source lines 104-109, 116) is computed from method_lines   *)
(* alone, is stored only in the chunk and decides no control flow; it is   *)
(* left out of the chunk records.                                          *)
(***************************************************************************)
EXTENDS Integers, Sequences, FiniteSets

\* ------------------------------------------------------------- bounds
\* Largest number of lines of an input file.
MaxLines == 4
\* Largest number of lines of an input file under LiveSpec.
MaxLiveLines == 3

\* ------------------------------------------------------ the input lines
L_doc   == <<"/", "/", "/", "d">>
L_star  == <<" ", "*", "/">>
L_blank == <<>>
L_open  == <<"f", "(", ")", "{">>
L_decl  == <<"p", "u", "b", "l", "i", "c", " ", "g", "(", ")", ";">>
L_prop  == <<" ", "p", "u", "b", "l", "i", "c", " ", "C", "{", "g", "e", "t", ";",
             "s", "e", "t", ";", "}">>
L_close == <<"}">>
L_one   == <<"g", "(", ")", "{", "}">>
L_cmt   == <<"/", "/", "(">>
L_jdoc  == <<"/", "*", "*", "(">>

\* The lines an input file is made of.
LineSet == {L_doc, L_star, L_blank, L_open, L_decl, L_prop, L_close, L_one, L_cmt,
            L_jdoc}

\* content.split('\n') never returns an empty list: an empty file is [''].
Inputs == UNION {[1..n -> LineSet] : n \in 1..MaxLines}
LiveInputs == UNION {[1..n -> LineSet] : n \in 1..MaxLiveLines}

\* ------------------------------------------------ string primitives
\* The characters str.strip() removes.
IsWhitespace(c) == c \in {" ", "\t", "\n", "\r"}

RECURSIVE LStrip(_)
LStrip(s) == IF s # <<>> /\ IsWhitespace(Head(s)) THEN LStrip(Tail(s)) ELSE s

RECURSIVE RStrip(_)
RStrip(s) ==
    IF s # <<>> /\ IsWhitespace(s[Len(s)]) THEN RStrip(SubSeq(s, 1, Len(s) - 1)) ELSE s

\* str.strip()
Strip(s) == RStrip(LStrip(s))

\* s.startswith(p)
StartsWith(s, p) == Len(s) >= Len(p) /\ SubSeq(s, 1, Len(p)) = p

\* s.endswith(p)
EndsWith(s, p) == Len(s) >= Len(p) /\ SubSeq(s, Len(s) - Len(p) + 1, Len(s)) = p

\* p in s
Contains(s, p) == \E k \in 1..(Len(s) - Len(p) + 1) : SubSeq(s, k, k + Len(p) - 1) = p

\* s.count(c) for a one-character c
Count(s, c) == Cardinality({k \in 1..Len(s) : s[k] = c})

\* '\n'.join(ls)
RECURSIVE Join(_)
Join(ls) ==
    IF ls = <<>> THEN <<>>
    ELSE IF Len(ls) = 1 THEN ls[1]
    ELSE ls[1] \o <<"\n">> \o Join(Tail(ls))

\* ------------------------------------------------ line classification
\* a documentation test that also takes any line with '('
IsDocStartOrCall(l) ==
    LET line == Strip(l)
    IN  \/ StartsWith(line, <<"/", "/", "/">>)
        \/ StartsWith(line, <<"/", "*", "*">>)
        \/ Contains(line, <<"(">>)

\* line.startswith('///') or line.startswith('/**'), line being stripped
IsDocStart(l) ==
    LET line == Strip(l)
    IN  StartsWith(line, <<"/", "/", "/">>) \/ StartsWith(line, <<"/", "*", "*">>)

\* the condition of the documentation loop on one line
IsDocLine(l) ==
    LET line == Strip(l)
    IN  \/ StartsWith(line, <<"/", "/", "/">>)
        \/ StartsWith(line, <<"*">>)
        \/ StartsWith(line, <<"/", "*", "*">>)

\* lines[i].strip() == ''
IsBlank(l) == Strip(l) = <<>>

IsMethodCandidateAnyComment(l) == Contains(Strip(l), <<"(">>)

\* '(' in next_line and not next_line.startswith('//')
IsMethodCandidate(l) ==
    LET next_line == Strip(l)
    IN  Contains(next_line, <<"(">>) /\ ~StartsWith(next_line, <<"/", "/">>)

\* the elif condition: a property or field line
IsPropertyLine(l) ==
    LET line == Strip(l)
    IN  /\ \/ Contains(line, <<"g", "e", "t", ";">>)
           \/ Contains(line, <<"s", "e", "t", ";">>)
           \/ EndsWith(line, <<";">>)
        /\ ~StartsWith(line, <<"/", "/">>)
        /\ \/ Contains(line, <<"p", "u", "b", "l", "i", "c">>)
           \/ Contains(line, <<"p", "r", "i", "v", "a", "t", "e">>)
           \/ Contains(line, <<"p", "r", "o", "t", "e", "c", "t", "e", "d">>)
           \/ Contains(line, <<"i", "n", "t", "e", "r", "n", "a", "l">>)

\* a counter that ignores the closing braces
BraceDeltaOpenOnly(l) == Count(l, "{")

\* line_content.count('{') - line_content.count('}')
BraceDelta(l) == Count(l, "{") - Count(l, "}")

\* ------------------------------------------------------------- state
VARIABLES
    lines,                 \* content.split('\n')
    i,                     \* the scan cursor
    pc,                    \* where the scan is: "scan" (line 51), "doc" (60),
                           \* "blank" (67), "decide" (70), "header" (83),
                           \* "found" (95), "body" (97), "assemble" (139),
                           \* "done" (146), "IndexError"
    class_level_content,   \* the class-level accumulator (line texts)
    chunks,                \* the METHOD chunks emitted so far
    xml_doc_lines,         \* documentation-lines buffer
    xml_start,             \* cursor where the documentation run began
    method_lines,          \* method-lines buffer
    method_start,          \* cursor where the header scan began
    brace_count,           \* body-tracking counter
    found_opening_brace,
    result,                \* the returned chunk list, <<>> before the return
    class_level_src,       \* history: source index of each accumulator line
    chunk_src,             \* history: per METHOD chunk, where its lines come from
    rewinds,               \* history: the method_start of every rewind so far
    skipped,               \* history: the blank lines skipped after a documentation run
    \* ---- main()
    args_files,            \* args.files, the patterns of the command line
    args_test,             \* args.test
    all_files,             \* the patterns expanded
    cs_files,              \* all_files filtered to '.cs'
    mpc,                   \* where main is: "expand" (168), "filter" (179),
                           \* "check" (181), "files" (187), "chunks" (199),
                           \* "done" (231), "exit" (183); "idle" when not run
    fidx,                  \* position of filepath in cs_files, 0-based
    nchunks,               \* len(chunks) of the current file
    idx,                   \* the chunk index of the inner loop
    posts,                 \* the upload_chunk calls made, in order
    first_failed,          \* position in posts of the first call that raised, 0 if none
    previews,              \* the chunks printed in test mode, in order
    started,               \* the files announced with "Processing: ..."
    reported,              \* the files announced with "Error processing ..."
    exit_status            \* -1 while running, then the exit status

\* the variables of main()
mvars == <<args_files, args_test, all_files, cs_files, mpc, fidx, nchunks, idx,
           posts, first_failed, previews, started, reported, exit_status>>

\* the variables of extract_chunks
svars == <<lines, i, pc, class_level_content, chunks, xml_doc_lines, xml_start,
           method_lines, method_start, brace_count, found_opening_brace, result,
           class_level_src, chunk_src, rewinds, skipped>>

vars == <<svars, mvars>>

\* len(lines)
N == Len(lines)

\* i < len(lines)
InRange(k) == k < N

\* lines[k] for k inside the list.  A read outside it raises IndexError in
\* the source: the loop tests below answer "error" for it and the scan
\* aborts with pc = "IndexError".
LineAt(k) == lines[k + 1]

\* the 0-based indices a..b-1 as a sequence
Range(a, b) == [k \in 1..(b - a) |-> a + k - 1]

\* main() is not running
MainIdle ==
    /\ args_files = <<>>
    /\ args_test = FALSE
    /\ all_files = <<>>
    /\ cs_files = <<>>
    /\ mpc = "idle"
    /\ fidx = 0
    /\ nchunks = 0
    /\ idx = 0
    /\ posts = <<>>
    /\ first_failed = 0
    /\ previews = <<>>
    /\ started = <<>>
    /\ reported = <<>>
    /\ exit_status = -1

\* the state at line 48-49, the file read and split
InitFrom(inputs) ==
    /\ lines \in inputs
    /\ i = 0
    /\ pc = "scan"
    /\ class_level_content = <<>>
    /\ chunks = <<>>
    /\ xml_doc_lines = <<>>
    /\ xml_start = 0
    /\ method_lines = <<>>
    /\ method_start = 0
    /\ brace_count = 0
    /\ found_opening_brace = FALSE
    /\ result = <<>>
    /\ class_level_src = <<>>
    /\ chunk_src = <<>>
    /\ rewinds = {}
    /\ skipped = {}
    /\ MainIdle

Init == InitFrom(Inputs)

LiveInit == InitFrom(LiveInputs)

\* ------------------------------------------------------- loop tests
\* Each test answers "body" (run the loop body), "exit" (leave the loop) or
\* "error" (the test itself read outside the list).

\* while i < len(lines): line = lines[i].strip()
ScanTest == IF InRange(i) THEN "body" ELSE "exit"

\* while i < len(lines) and (lines[i] is a documentation line)
DocTest ==
    IF ~InRange(i) THEN "exit"
    ELSE IF IsDocLine(LineAt(i)) THEN "body" ELSE "exit"

BlankTestUnguarded ==
    IF i \notin 0..(N - 1) THEN "error"
    ELSE IF IsBlank(LineAt(i)) THEN "body" ELSE "exit"

\* while i < len(lines) and lines[i].strip() == ''
BlankTest ==
    IF ~InRange(i) THEN "exit"
    ELSE IF IsBlank(LineAt(i)) THEN "body" ELSE "exit"

BodyTestInclusive == IF InRange(i) /\ brace_count >= 0 THEN "body" ELSE "exit"

\* while i < len(lines) and brace_count > 0
BodyTest == IF InRange(i) /\ brace_count > 0 THEN "body" ELSE "exit"

\* ------------------------------------------------- the outer scan loop
\* while i < len(lines) is false: leave the loop
ScanEnd ==
    /\ pc = "scan"
    /\ ScanTest = "exit"
    /\ pc' = "assemble"
    /\ UNCHANGED <<lines, i, class_level_content, chunks, xml_doc_lines, xml_start,
                   method_lines, method_start, brace_count, found_opening_brace,
                   result, class_level_src, chunk_src,
                   rewinds,
                   skipped, mvars>>

\* if line.startswith('///') or line.startswith('/**'): start a documentation run
DocStart ==
    /\ pc = "scan"
    /\ ScanTest = "body"
    /\ IsDocStart(LineAt(i))
    /\ xml_doc_lines' = <<>>
    /\ xml_start' = i
    /\ pc' = "doc"
    /\ UNCHANGED <<lines, i, class_level_content, chunks, method_lines, method_start,
                   brace_count, found_opening_brace, result, class_level_src,
                   chunk_src,
                   rewinds,
                   skipped, mvars>>

AppendClassLevelStripped ==
    /\ class_level_content' = Append(class_level_content, Strip(LineAt(i)))
    /\ class_level_src' = Append(class_level_src, i)
    /\ i' = i + 1
    /\ pc' = "scan"
    /\ UNCHANGED <<lines, chunks, xml_doc_lines, xml_start, method_lines,
                   method_start, brace_count, found_opening_brace, result, chunk_src,
                   rewinds,
                   skipped, mvars>>

\* class_level_content.append(lines[i]); i += 1
AppendClassLevel ==
    /\ class_level_content' = Append(class_level_content, LineAt(i))
    /\ class_level_src' = Append(class_level_src, i)
    /\ i' = i + 1
    /\ pc' = "scan"
    /\ UNCHANGED <<lines, chunks, xml_doc_lines, xml_start, method_lines,
                   method_start, brace_count, found_opening_brace, result, chunk_src,
                   rewinds,
                   skipped, mvars>>

\* elif: a property or field line
PropertyLine ==
    /\ pc = "scan"
    /\ ScanTest = "body"
    /\ ~IsDocStart(LineAt(i))
    /\ IsPropertyLine(LineAt(i))
    /\ AppendClassLevel

\* else: any other line
DefaultLine ==
    /\ pc = "scan"
    /\ ScanTest = "body"
    /\ ~IsDocStart(LineAt(i))
    /\ ~IsPropertyLine(LineAt(i))
    /\ AppendClassLevel

\* ---------------------------------------------- the documentation run
\* xml_doc_lines.append(lines[i]); i += 1
DocLine ==
    /\ pc = "doc"
    /\ DocTest = "body"
    /\ xml_doc_lines' = Append(xml_doc_lines, LineAt(i))
    /\ i' = i + 1
    /\ UNCHANGED <<lines, pc, class_level_content, chunks, xml_start, method_lines,
                   method_start, brace_count, found_opening_brace, result,
                   class_level_src, chunk_src, rewinds,
                   skipped, mvars>>

\* the documentation loop ends
DocEnd ==
    /\ pc = "doc"
    /\ DocTest # "body"
    /\ pc' = IF DocTest = "error" THEN "IndexError" ELSE "blank"
    /\ UNCHANGED <<lines, i, class_level_content, chunks, xml_doc_lines, xml_start,
                   method_lines, method_start, brace_count, found_opening_brace,
                   result, class_level_src, chunk_src,
                   rewinds,
                   skipped, mvars>>

\* a blank-line loop that keeps the blank line with the documentation
BlankLineRecorded ==
    /\ pc = "blank"
    /\ BlankTest = "body"
    /\ i' = i + 1
    /\ xml_doc_lines' = Append(xml_doc_lines, LineAt(i))
    /\ skipped' = skipped \cup {i}
    /\ UNCHANGED <<lines, pc, class_level_content, chunks, xml_start,
                   method_lines, method_start, brace_count, found_opening_brace,
                   result, class_level_src, chunk_src, rewinds, mvars>>

\* a blank line after the run: i += 1, nothing recorded
BlankLine ==
    /\ pc = "blank"
    /\ BlankTest = "body"
    /\ i' = i + 1
    /\ skipped' = skipped \cup {i}
    /\ UNCHANGED <<lines, pc, class_level_content, chunks, xml_doc_lines, xml_start,
                   method_lines, method_start, brace_count, found_opening_brace,
                   result, class_level_src, chunk_src, rewinds, mvars>>

\* the blank-line loop ends
BlankEnd ==
    /\ pc = "blank"
    /\ BlankTest # "body"
    /\ pc' = IF BlankTest = "error" THEN "IndexError" ELSE "decide"
    /\ UNCHANGED <<lines, i, class_level_content, chunks, xml_doc_lines, xml_start,
                   method_lines, method_start, brace_count, found_opening_brace,
                   result, class_level_src, chunk_src,
                   rewinds,
                   skipped, mvars>>

ExtendClassLevelFront ==
    /\ class_level_content' = xml_doc_lines \o class_level_content
    /\ class_level_src' =
           Range(xml_start, xml_start + Len(xml_doc_lines)) \o class_level_src

\* class_level_content.extend(xml_doc_lines)
ExtendClassLevel ==
    /\ class_level_content' = class_level_content \o xml_doc_lines
    /\ class_level_src' =
           class_level_src \o Range(xml_start, xml_start + Len(xml_doc_lines))

\* if i < len(lines) and the next line is a method candidate
DecideMethod ==
    /\ pc = "decide"
    /\ InRange(i)
    /\ IsMethodCandidate(LineAt(i))
    /\ method_lines' = <<>>
    /\ method_start' = i
    /\ brace_count' = 0
    /\ found_opening_brace' = FALSE
    /\ pc' = "header"
    /\ UNCHANGED <<lines, i, class_level_content, chunks, xml_doc_lines, xml_start,
                   result, class_level_src, chunk_src,
                   rewinds,
                   skipped, mvars>>

\* if i < len(lines), else: not a method, add to class-level content
DecideNotMethod ==
    /\ pc = "decide"
    /\ InRange(i)
    /\ ~IsMethodCandidate(LineAt(i))
    /\ ExtendClassLevel
    /\ pc' = "scan"
    /\ UNCHANGED <<lines, i, chunks, xml_doc_lines, xml_start, method_lines,
                   method_start, brace_count, found_opening_brace, result, chunk_src,
                   rewinds,
                   skipped, mvars>>

\* if i < len(lines) is false: the if has no else, the outer loop goes on
DecideEOF ==
    /\ pc = "decide"
    /\ ~InRange(i)
    /\ pc' = "scan"
    /\ UNCHANGED <<lines, i, class_level_content, chunks, xml_doc_lines, xml_start,
                   method_lines, method_start, brace_count, found_opening_brace,
                   result, class_level_src, chunk_src,
                   rewinds,
                   skipped, mvars>>

\* ------------------------------------------------------ the header scan
\* a header scan that passes over a line without keeping it
HeaderLineSkipped ==
    /\ pc = "header"
    /\ InRange(i)
    /\ ~Contains(LineAt(i), <<"{">>)
    /\ i' = i + 1
    /\ UNCHANGED <<lines, pc, class_level_content, chunks, xml_doc_lines, xml_start,
                   method_lines, method_start, brace_count, found_opening_brace,
                   result, class_level_src, chunk_src, rewinds,
                   skipped, mvars>>

\* a header line without '{': method_lines.append(lines[i]); i += 1
HeaderLine ==
    /\ pc = "header"
    /\ InRange(i)
    /\ ~Contains(LineAt(i), <<"{">>)
    /\ method_lines' = Append(method_lines, LineAt(i))
    /\ i' = i + 1
    /\ UNCHANGED <<lines, pc, class_level_content, chunks, xml_doc_lines, xml_start,
                   method_start, brace_count, found_opening_brace, result,
                   class_level_src, chunk_src, rewinds,
                   skipped, mvars>>

\* the first line with '{': seed the counter, i += 1, break
HeaderBrace ==
    /\ pc = "header"
    /\ InRange(i)
    /\ Contains(LineAt(i), <<"{">>)
    /\ method_lines' = Append(method_lines, LineAt(i))
    /\ found_opening_brace' = TRUE
    /\ brace_count' = brace_count + BraceDelta(LineAt(i))
    /\ i' = i + 1
    /\ pc' = "found"
    /\ UNCHANGED <<lines, class_level_content, chunks, xml_doc_lines, xml_start,
                   method_start, result, class_level_src, chunk_src,
                   rewinds,
                   skipped, mvars>>

\* the header loop runs off the end of the file
HeaderEOF ==
    /\ pc = "header"
    /\ ~InRange(i)
    /\ pc' = "found"
    /\ UNCHANGED <<lines, i, class_level_content, chunks, xml_doc_lines, xml_start,
                   method_lines, method_start, brace_count, found_opening_brace,
                   result, class_level_src, chunk_src,
                   rewinds,
                   skipped, mvars>>

\* if found_opening_brace: go on to the body
EnterBody ==
    /\ pc = "found"
    /\ found_opening_brace
    /\ pc' = "body"
    /\ UNCHANGED <<lines, i, class_level_content, chunks, xml_doc_lines, xml_start,
                   method_lines, method_start, brace_count, found_opening_brace,
                   result, class_level_src, chunk_src,
                   rewinds,
                   skipped, mvars>>

RewindTargetDocStart == xml_start

\* no rewind: the cursor stays where the header scan left it
RewindTargetNone == i

\* a rewind onto the line before the header scan began
RewindTargetBackOne == method_start - 1

\* i = method_start
RewindTarget == method_start

\* else: class_level_content.extend(xml_doc_lines); i = method_start
Rewind ==
    /\ pc = "found"
    /\ ~found_opening_brace
    /\ ExtendClassLevel
    /\ i' = RewindTarget
    /\ pc' = "scan"
    /\ rewinds' = rewinds \cup {method_start}
    /\ UNCHANGED <<lines, chunks, xml_doc_lines, xml_start, method_lines,
                   method_start, brace_count, found_opening_brace, result, chunk_src,
                   skipped, mvars>>

\* ------------------------------------------------------ the method body
\* a body line: append it, adjust the counter, i += 1
BodyLine ==
    /\ pc = "body"
    /\ BodyTest = "body"
    /\ method_lines' = Append(method_lines, LineAt(i))
    /\ brace_count' = brace_count + BraceDelta(LineAt(i))
    /\ i' = i + 1
    /\ UNCHANGED <<lines, pc, class_level_content, chunks, xml_doc_lines, xml_start,
                   method_start, found_opening_brace, result, class_level_src,
                   chunk_src,
                   rewinds,
                   skipped, mvars>>

EmitFirst(cs, c) == <<c>> \o cs

\* chunks.append(c)
Emit(cs, c) == Append(cs, c)

\* chunk_text = '\n'.join(xml_doc_lines + method_lines); chunks.append(...); continue
EmitMethod ==
    /\ pc = "body"
    /\ BodyTest = "exit"
    /\ chunks' = Emit(chunks, [text |-> Join(xml_doc_lines \o method_lines),
                               chunk_type |-> "method"])
    /\ chunk_src' = Emit(chunk_src,
                         [doc |-> xml_start,
                          sig |-> method_start,
                          src |-> Range(xml_start, xml_start + Len(xml_doc_lines))
                                  \o Range(method_start, i)])
    /\ pc' = "scan"
    /\ UNCHANGED <<lines, i, class_level_content, xml_doc_lines, xml_start,
                   method_lines, method_start, brace_count, found_opening_brace,
                   result, class_level_src,
                   rewinds,
                   skipped, mvars>>

\* ------------------------------------------------------- the assembler
\* class_level_text = '\n'.join(class_level_content).strip()
ClassLevelText == Strip(Join(class_level_content))

WithClassChunkLast(text, cs) ==
    IF text # <<>>
    THEN cs \o <<[text |-> text, chunk_type |-> "class_definition"]>>
    ELSE cs

\* if class_level_text: chunks.insert(0, {...})
WithClassChunk(text, cs) ==
    IF text # <<>>
    THEN <<[text |-> text, chunk_type |-> "class_definition"]>> \o cs
    ELSE cs

\* the end of extract_chunks: return the chunk list
Assemble ==
    /\ pc = "assemble"
    /\ result' = WithClassChunk(ClassLevelText, chunks)
    /\ pc' = "done"
    /\ UNCHANGED <<lines, i, class_level_content, chunks, xml_doc_lines, xml_start,
                   method_lines, method_start, brace_count, found_opening_brace,
                   class_level_src, chunk_src, rewinds,
                   skipped, mvars>>

Next ==
    \/ ScanEnd
    \/ DocStart
    \/ PropertyLine
    \/ DefaultLine
    \/ DocLine
    \/ DocEnd
    \/ BlankLine
    \/ BlankEnd
    \/ DecideMethod
    \/ DecideNotMethod
    \/ DecideEOF
    \/ HeaderLine
    \/ HeaderBrace
    \/ HeaderEOF
    \/ EnterBody
    \/ Rewind
    \/ BodyLine
    \/ EmitMethod
    \/ Assemble

Spec == Init /\ [][Next]_vars

\* The scan is sequential code: a step that can be taken is taken.
LiveSpec == LiveInit /\ [][Next]_vars /\ WF_vars(Next)

\* =============================================================== main()
\* Largest number of patterns on the command line.
MaxArgs == 2

\* ---- the file system main() runs on, in the order glob lists it
F_a   == <<"a", ".", "c", "s">>
F_b   == <<"b", ".", "c", "s">>
F_bad == <<"b", "a", "d", ".", "c", "s">>
F_txt == <<"a", ".", "t", "x", "t">>

FileSystem == <<F_a, F_b, F_bad, F_txt>>

\* ---- the patterns of the command line
P_glob    == <<"*", ".", "c", "s">>
P_missing == <<"x", ".", "c", "s">>

PatternSet == {P_glob, F_a, P_missing, F_txt}

ArgLists == UNION {[1..n -> PatternSet] : n \in 1..MaxArgs}

\* a shell pattern with '*' matches a name
RECURSIVE GlobMatch(_, _)
GlobMatch(p, name) ==
    IF p = <<>> THEN name = <<>>
    ELSE IF Head(p) = "*"
         THEN GlobMatch(Tail(p), name) \/ (name # <<>> /\ GlobMatch(p, Tail(name)))
         ELSE name # <<>> /\ Head(p) = Head(name) /\ GlobMatch(Tail(p), Tail(name))

\* glob.glob(pattern): the existing files the pattern matches
RECURSIVE GlobIn(_, _)
GlobIn(pattern, listing) ==
    IF listing = <<>> THEN <<>>
    ELSE (IF GlobMatch(pattern, Head(listing)) THEN <<Head(listing)>> ELSE <<>>)
         \o GlobIn(pattern, Tail(listing))

Glob(pattern) == GlobIn(pattern, FileSystem)

ExpandNoFallback(pattern) == Glob(pattern)

\* expanded = glob.glob(pattern); the pattern itself when nothing matches
Expand(pattern) == IF Glob(pattern) # <<>> THEN Glob(pattern) ELSE <<pattern>>

\* the loop over args.files
RECURSIVE ExpandAll(_)
ExpandAll(patterns) ==
    IF patterns = <<>> THEN <<>>
    ELSE Expand(Head(patterns)) \o ExpandAll(Tail(patterns))

\* [f for f in all_files if f.endswith('.cs')]
RECURSIVE FilterCs(_)
FilterCs(fs) ==
    IF fs = <<>> THEN <<>>
    ELSE (IF EndsWith(Head(fs), <<".", "c", "s">>) THEN <<Head(fs)>> ELSE <<>>)
         \o FilterCs(Tail(fs))

\* extract_chunks(filepath) raises: open() finds no such file, or the
\* content is not UTF-8
ExtractRaises(f) == (\A k \in DOMAIN FileSystem : FileSystem[k] # f) \/ f = F_bad

\* len(chunks) for a file that is read: a.cs holds a class with one
\* documented method, b.cs class-level lines only
ChunkCount(f) == IF f = F_a THEN 2 ELSE 1

\* cs_files[fidx]
FilePath == cs_files[fidx + 1]

MainInit ==
    /\ lines = <<L_blank>>
    /\ i = 0
    /\ pc = "idle"
    /\ class_level_content = <<>>
    /\ chunks = <<>>
    /\ xml_doc_lines = <<>>
    /\ xml_start = 0
    /\ method_lines = <<>>
    /\ method_start = 0
    /\ brace_count = 0
    /\ found_opening_brace = FALSE
    /\ result = <<>>
    /\ class_level_src = <<>>
    /\ chunk_src = <<>>
    /\ rewinds = {}
    /\ skipped = {}
    /\ args_files \in ArgLists
    /\ args_test \in BOOLEAN
    /\ all_files = <<>>
    /\ cs_files = <<>>
    /\ mpc = "expand"
    /\ fidx = 0
    /\ nchunks = 0
    /\ idx = 0
    /\ posts = <<>>
    /\ first_failed = 0
    /\ previews = <<>>
    /\ started = <<>>
    /\ reported = <<>>
    /\ exit_status = -1

\* Expand wildcards
ExpandPatterns ==
    /\ mpc = "expand"
    /\ all_files' = ExpandAll(args_files)
    /\ mpc' = "filter"
    /\ UNCHANGED <<svars, args_files, args_test, cs_files, fidx, nchunks, idx, posts,
                   first_failed, previews, started, reported, exit_status>>

\* Filter for .cs files
FilterFiles ==
    /\ mpc = "filter"
    /\ cs_files' = FilterCs(all_files)
    /\ mpc' = "check"
    /\ UNCHANGED <<svars, args_files, args_test, all_files, fidx, nchunks, idx, posts,
                   first_failed, previews, started, reported, exit_status>>

\* if not cs_files: sys.exit(1)
NoFiles ==
    /\ mpc = "check"
    /\ cs_files = <<>>
    /\ mpc' = "exit"
    /\ exit_status' = 1
    /\ UNCHANGED <<svars, args_files, args_test, all_files, cs_files, fidx, nchunks,
                   idx, posts, first_failed, previews, started, reported>>

\* cs_files is not empty: go on to the loop over the files
SomeFiles ==
    /\ mpc = "check"
    /\ cs_files # <<>>
    /\ mpc' = "files"
    /\ UNCHANGED <<svars, args_files, args_test, all_files, cs_files, fidx, nchunks,
                   idx, posts, first_failed, previews, started, reported, exit_status>>

\* extract_chunks(filepath) returns
ExtractOk ==
    /\ mpc = "files"
    /\ fidx < Len(cs_files)
    /\ ~ExtractRaises(FilePath)
    /\ started' = Append(started, fidx)
    /\ nchunks' = ChunkCount(FilePath)
    /\ idx' = 0
    /\ mpc' = "chunks"
    /\ UNCHANGED <<svars, args_files, args_test, all_files, cs_files, fidx, posts,
                   first_failed, previews, reported, exit_status>>

\* a file error that ends the run
AbortRun == "exit"

\* where the outer except clause leaves the loop over the files
AfterFileError == "files"

\* extract_chunks(filepath) raises: except Exception prints the file, the
\* loop goes on
ExtractFails ==
    /\ mpc = "files"
    /\ fidx < Len(cs_files)
    /\ ExtractRaises(FilePath)
    /\ started' = Append(started, fidx)
    /\ reported' = Append(reported, fidx)
    /\ fidx' = fidx + 1
    /\ mpc' = AfterFileError
    /\ UNCHANGED <<svars, args_files, args_test, all_files, cs_files, nchunks, idx,
                   posts, first_failed, previews, exit_status>>

\* if args.test: print the chunk
Preview ==
    /\ mpc = "chunks"
    /\ idx < nchunks
    /\ args_test
    /\ previews' = Append(previews, <<fidx, idx>>)
    /\ idx' = idx + 1
    /\ UNCHANGED <<svars, args_files, args_test, all_files, cs_files, mpc, fidx,
                   nchunks, posts, first_failed, reported, started, exit_status>>

\* upload_chunk(...) returns
UploadOk ==
    /\ mpc = "chunks"
    /\ idx < nchunks
    /\ ~args_test
    /\ posts' = Append(posts, <<fidx, idx>>)
    /\ idx' = idx + 1
    /\ UNCHANGED <<svars, args_files, args_test, all_files, cs_files, mpc, fidx,
                   nchunks, first_failed, previews, reported, started, exit_status>>

\* a failed upload that leaves the inner loop
AbandonFile == nchunks

\* the chunk index the inner loop goes on with after a failed upload
AfterUploadError == idx + 1

\* upload_chunk(...) raises: except Exception prints the failure, the inner
\* loop goes on
UploadFails ==
    /\ mpc = "chunks"
    /\ idx < nchunks
    /\ ~args_test
    /\ posts' = Append(posts, <<fidx, idx>>)
    /\ first_failed' = IF first_failed = 0 THEN Len(posts) + 1 ELSE first_failed
    /\ idx' = AfterUploadError
    /\ UNCHANGED <<svars, args_files, args_test, all_files, cs_files, mpc, fidx,
                   nchunks, previews, reported, started, exit_status>>

\* the inner loop ends: the next file
EndFile ==
    /\ mpc = "chunks"
    /\ idx >= nchunks
    /\ fidx' = fidx + 1
    /\ mpc' = "files"
    /\ UNCHANGED <<svars, args_files, args_test, all_files, cs_files, nchunks, idx,
                   posts, first_failed, previews, reported, started, exit_status>>

\* the loop over the files ends: print("Done!")
Done ==
    /\ mpc = "files"
    /\ fidx >= Len(cs_files)
    /\ mpc' = "done"
    /\ exit_status' = 0
    /\ UNCHANGED <<svars, args_files, args_test, all_files, cs_files, fidx, nchunks,
                   idx, posts, first_failed, previews, reported, started>>

MainNext ==
    \/ ExpandPatterns
    \/ FilterFiles
    \/ NoFiles
    \/ SomeFiles
    \/ ExtractOk
    \/ ExtractFails
    \/ Preview
    \/ UploadOk
    \/ UploadFails
    \/ EndFile
    \/ Done

\* main() is sequential code: a step that can be taken is taken.
MainSpec == MainInit /\ [][MainNext]_vars /\ WF_vars(MainNext)


\* ============================================================ claims
\* The source indices held by the accumulator and by the METHOD chunks.
CountIn(seq, x) == Cardinality({p \in DOMAIN seq : seq[p] = x})

ChunkPositions == UNION {{<<j, p>> : p \in DOMAIN chunk_src[j].src} : j \in DOMAIN chunk_src}

\* how many times line k occurs in the METHOD chunks
InChunks(k) == Cardinality({jp \in ChunkPositions : chunk_src[jp[1]].src[jp[2]] = k})

\* how many times line k occurs in the accumulator
InClassLevel(k) == CountIn(class_level_src, k)

\* lines[a], ..., lines[b-1]
Slice(a, b) == [k \in 1..(b - a) |-> lines[a + k]]

\* C1: when extract_chunks finishes, every line of the input is in exactly
\* one place: the text of exactly one METHOD chunk, or the class-level
\* accumulator.  No line is lost and none is duplicated.
C1_EveryLineConsumedOnce ==
    pc = "done" => \A k \in 0..(N - 1) : InChunks(k) + InClassLevel(k) = 1

\* C2: the returned list holds at most one class_definition chunk; it is
\* there exactly when the accumulator holds a character that trimming keeps;
\* when there, it is at index 0, its text is the trimmed join of the
\* accumulator, and the METHOD chunks follow it in their emission order.
C2_ClassChunkFirst ==
    pc = "done" =>
        LET cls == {k \in DOMAIN result : result[k].chunk_type = "class_definition"}
            kept == \E p \in DOMAIN class_level_content :
                        \E q \in DOMAIN class_level_content[p] :
                            ~IsWhitespace(class_level_content[p][q])
        IN  /\ Cardinality(cls) <= 1
            /\ (cls # {}) <=> kept
            /\ cls # {} =>
                   /\ cls = {1}
                   /\ SubSeq(result, 2, Len(result)) = chunks
                   /\ \A k \in 2..Len(result) : result[k].chunk_type = "method"
            /\ cls = {} => result = chunks

\* C2 witness: a class_definition chunk returned in front of a METHOD chunk.
C2_Witness ==
    /\ pc = "done"
    /\ Len(result) >= 2
    /\ result[1].chunk_type = "class_definition"
    /\ result[2].chunk_type = "method"

\* ---- where a documentation run starting at line s leads, read off the input
\* the least element of a non-empty set of numbers
Least(S) == CHOOSE k \in S : \A m \in S : k <= m

NotDocAt(k) ==
    LET t == Strip(lines[k + 1])
    IN  ~(\/ StartsWith(t, <<"/", "/", "/">>)
          \/ StartsWith(t, <<"*">>)
          \/ StartsWith(t, <<"/", "*", "*">>))

NotBlankAt(k) == \E q \in DOMAIN lines[k + 1] : ~IsWhitespace(lines[k + 1][q])

HasOpenBraceAt(k) == \E q \in DOMAIN lines[k + 1] : lines[k + 1][q] = "{"

\* the line after the run that starts at s
RunEnd(s) == Least({k \in s..(N - 1) : NotDocAt(k)} \cup {N})

\* the next non-blank line after the run
SigOf(s) == Least({k \in RunEnd(s)..(N - 1) : NotBlankAt(k)} \cup {N})

\* the first line from there on with '{'
BraceOf(s) == Least({k \in SigOf(s)..(N - 1) : HasOpenBraceAt(k)} \cup {N})

\* the braces opened and not closed on the lines a..b
RECURSIVE Depth(_, _)
Depth(a, b) ==
    IF b < a THEN 0
    ELSE Depth(a, b - 1)
         + Cardinality({q \in DOMAIN lines[b + 1] : lines[b + 1][q] = "{"})
         - Cardinality({q \in DOMAIN lines[b + 1] : lines[b + 1][q] = "}"})

\* the line that closes the body opened at b, or the last line of the file
\* when the body is never closed
CloseOf(b) == Least({k \in b..(N - 1) : Depth(b, k) <= 0} \cup {N - 1})

\* the next non-blank line has '(' and does not start with '//'
CandidateAt(k) ==
    LET t == Strip(lines[k + 1])
    IN  (\E q \in DOMAIN t : t[q] = "(") /\ ~StartsWith(t, <<"/", "/">>)

\* the run at s is followed by a method candidate with a '{' from there on
LeadsToMethod(s) ==
    /\ SigOf(s) < N
    /\ CandidateAt(SigOf(s))
    /\ BraceOf(s) < N

\* the run at s is followed by a non-blank line that is no method candidate
LeadsToNonMethod(s) ==
    /\ SigOf(s) < N
    /\ ~CandidateAt(SigOf(s))

\* the scan is inside the documentation branch entered at xml_start
InDocBranch == pc \in {"doc", "blank", "decide", "header", "found", "body"}

\* C3: a documentation run the scan dispatches that is followed, ignoring
\* blank lines, by a method candidate with a '{' on some line from there on,
\* produces exactly one METHOD chunk: the branch changes chunks only when it
\* ends, and then appends one chunk whose text is the documentation lines
\* followed by the lines from the signature line through the line that
\* closes the body (the last line of the file when nothing closes it),
\* newline-joined and unmodified, without the skipped blank lines; the
\* accumulator is left alone.
C3_DocMethodChunk ==
    [][(InDocBranch /\ LeadsToMethod(xml_start)) =>
          /\ class_level_content' = class_level_content
          /\ IF pc' = "scan"
             THEN chunks' = Append(chunks,
                      [text |-> Join(Slice(xml_start, RunEnd(xml_start))
                                     \o Slice(SigOf(xml_start),
                                              CloseOf(BraceOf(xml_start)) + 1)),
                       chunk_type |-> "method"])
             ELSE chunks' = chunks]_vars

\* C3 witness: a chunk emitted for a run with a skipped blank line and a body
\* that a later line closes.
C3_Witness ==
    /\ pc = "scan"
    /\ chunks # <<>>
    /\ LeadsToMethod(xml_start)
    /\ SigOf(xml_start) > RunEnd(xml_start)
    /\ CloseOf(BraceOf(xml_start)) > BraceOf(xml_start)
    /\ chunk_src[Len(chunk_src)].doc = xml_start
    /\ i = CloseOf(BraceOf(xml_start)) + 1

\* the trimmed line k has 'get;' or 'set;' or ends with ';', does not start
\* with '//', and names an access modifier
PropertyAt(k) ==
    LET t == Strip(lines[k + 1])
    IN  /\ \/ Contains(t, <<"g", "e", "t", ";">>)
           \/ Contains(t, <<"s", "e", "t", ";">>)
           \/ (t # <<>> /\ t[Len(t)] = ";")
        /\ ~StartsWith(t, <<"/", "/">>)
        /\ \E w \in {<<"p", "u", "b", "l", "i", "c">>,
                     <<"p", "r", "i", "v", "a", "t", "e">>,
                     <<"p", "r", "o", "t", "e", "c", "t", "e", "d">>,
                     <<"i", "n", "t", "e", "r", "n", "a", "l">>} : Contains(t, w)

\* the trimmed line k starts with '///' or '/**'
DocStartAt(k) ==
    LET t == Strip(lines[k + 1])
    IN  StartsWith(t, <<"/", "/", "/">>) \/ StartsWith(t, <<"/", "*", "*">>)

\* C4 as stated: a property/field line, wherever it occurs in the input, is
\* in the class-level accumulator and in no METHOD chunk when the scan ends.
C4_PropertyLineAnywhere ==
    pc = "done" =>
        \A k \in 0..(N - 1) : PropertyAt(k) => InClassLevel(k) = 1 /\ InChunks(k) = 0

\* C4 amended: a property/field line that the outer scan loop dispatches
\* (the cursor is on it when an iteration begins; such a line cannot start
\* with '///', and the amendment leaves out one starting with '/**') is
\* appended as-is to the accumulator, the cursor advances by one, no method
\* classification starts, and no METHOD chunk ever holds a line the
\* accumulator holds.
C4_PropertyLineDispatched ==
    /\ [][(pc = "scan" /\ i < N /\ PropertyAt(i) /\ ~DocStartAt(i)) =>
             /\ class_level_content' = Append(class_level_content, lines[i + 1])
             /\ i' = i + 1
             /\ pc' = "scan"
             /\ chunks' = chunks]_vars
    /\ [](\A k \in 0..(N - 1) : InClassLevel(k) > 0 => InChunks(k) = 0)

\* C4 witness: an indented property line appended from the outer loop, after a
\* METHOD chunk was emitted.
C4_Witness ==
    /\ pc = "scan"
    /\ i > 0
    /\ PropertyAt(i - 1)
    /\ lines[i] # Strip(lines[i])
    /\ class_level_src # <<>>
    /\ class_level_src[Len(class_level_src)] = i - 1
    /\ chunks # <<>>

\* C5: when a header scan reaches the end of the file without a '{' (the
\* cursor is then rewound to the line m where that scan began), no METHOD
\* chunk is emitted for that header and every line from m to the end of the
\* file ends up in the class-level accumulator.
C5_RewoundHeaderInClassLevel ==
    /\ \A m \in rewinds : \A j \in DOMAIN chunk_src : chunk_src[j].sig # m
    /\ pc = "done" => \A m \in rewinds : \A k \in m..(N - 1) : InClassLevel(k) = 1

\* C6: a documentation run the scan dispatches whose next non-blank line is
\* no method candidate adds all of its lines to the accumulator when the
\* branch ends, with the cursor left on that next line, and to no METHOD
\* chunk, then or later.
C6_DocNonMethodToClassLevel ==
    /\ [][(InDocBranch /\ LeadsToNonMethod(xml_start)) =>
             /\ chunks' = chunks
             /\ IF pc' = "scan"
                THEN /\ class_level_content' =
                            class_level_content \o Slice(xml_start, RunEnd(xml_start))
                     /\ i' = SigOf(xml_start)
                ELSE class_level_content' = class_level_content]_vars
    /\ [](\A k \in 0..(N - 1) : InClassLevel(k) > 0 => InChunks(k) = 0)

\* C6 witness: a run of two documentation lines added to the accumulator in
\* front of a '//' comment line that has a '('.
C6_Witness ==
    /\ pc = "scan"
    /\ Len(xml_doc_lines) >= 2
    /\ LeadsToNonMethod(xml_start)
    /\ RunEnd(xml_start) = xml_start + Len(xml_doc_lines)
    /\ i = SigOf(xml_start)
    /\ \E q \in DOMAIN lines[i + 1] : lines[i + 1][q] = "("
    /\ Len(class_level_src) >= 2
    /\ class_level_src[Len(class_level_src)] = RunEnd(xml_start) - 1

\* how far the scan is from its end: the lines from the start of the
\* current outer iteration on, then the loops left in this iteration, then
\* the lines left in the current loop
Variant ==
    LET base  == IF InDocBranch THEN xml_start ELSE i
        phase == CASE pc = "scan"   -> 0
                   [] pc = "doc"    -> 1
                   [] pc = "blank"  -> 2
                   [] pc = "decide" -> 3
                   [] pc = "header" -> 4
                   [] pc = "found"  -> 5
                   [] pc = "body"   -> 6
                   [] OTHER         -> 7
    IN  CASE pc = "done"     -> 0
          [] pc = "assemble" -> 1
          [] OTHER -> 2 + (N - base) * 8 * (N + 1) + (7 - phase) * (N + 1) + (N - i)

\* C7: the scan terminates and returns a chunk list for every input: it
\* reaches the return, every step brings it closer to it, the cursor stays
\* within 0..len(lines), and no line is read outside the list (no
\* IndexError).
C7_ScanTerminates ==
    /\ <>(pc = "done")
    /\ [][Variant' < Variant]_vars
    /\ [](pc # "IndexError" /\ i \in 0..N /\ Variant >= 0)

\* C7 witness: a scan that ended after a skipped blank line and a rewind.
C7_Witness ==
    /\ pc = "done"
    /\ rewinds # {}
    /\ \E k \in 0..(N - 1) : InClassLevel(k) = 0
    /\ result # <<>>

\* C8: at the start of each iteration of the outer loop the cursor is not
\* smaller than at the start of the previous one and every emitted line is
\* behind it; the cursor moves back only in the rewind, and then onto the
\* line where the header scan began, which has not been emitted.
C8_CursorNeverBackOnEmitted ==
    [][/\ pc' = "scan" =>
              /\ i' >= (IF pc = "scan" THEN i ELSE xml_start)
              /\ \A k \in 0..(N - 1) :
                     (CountIn(class_level_src', k) > 0
                      \/ \E j \in DOMAIN chunk_src' : CountIn(chunk_src'[j].src, k) > 0)
                     => k < i'
       /\ i' < i =>
              /\ pc = "found"
              /\ ~found_opening_brace
              /\ i' = method_start]_vars

\* C8 witness: the cursor rewound to the header line after the documentation
\* run and a skipped blank line.
C8_Witness ==
    /\ pc = "scan"
    /\ method_start \in rewinds
    /\ i = method_start
    /\ i > xml_start + Len(xml_doc_lines)
    /\ class_level_src # <<>>

\* C9: the METHOD chunks are emitted, and returned, in strictly increasing
\* order of their first signature line and of their first documentation
\* line, each with the text of its own lines.
C9_MethodChunksInSourceOrder ==
    /\ Len(chunk_src) = Len(chunks)
    /\ \A j \in DOMAIN chunks :
           /\ chunks[j].chunk_type = "method"
           /\ chunks[j].text = Join([p \in DOMAIN chunk_src[j].src |->
                                        lines[chunk_src[j].src[p] + 1]])
           /\ chunk_src[j].doc < chunk_src[j].sig
    /\ \A j, k \in DOMAIN chunk_src :
           j < k => chunk_src[j].sig < chunk_src[k].doc
    /\ pc = "done" =>
           chunks = SubSeq(result, Len(result) - Len(chunks) + 1, Len(result))

\* C9 witness: two METHOD chunks returned.
C9_Witness ==
    /\ pc = "done"
    /\ Len(chunks) >= 2
    /\ result[Len(result)].text # result[Len(result) - 1].text

\* a is a prefix of b
IsPrefix(a, b) == Len(a) <= Len(b) /\ SubSeq(b, 1, Len(a)) = a

\* C10: the accumulator is append-only during the scan and always holds
\* source lines, unmodified, in strictly increasing index order.
C10_ClassLevelAppendOnlyInOrder ==
    /\ [][/\ IsPrefix(class_level_content, class_level_content')
          /\ IsPrefix(class_level_src, class_level_src')]_vars
    /\ [](/\ Len(class_level_src) = Len(class_level_content)
          /\ \A p \in DOMAIN class_level_src :
                 class_level_content[p] = lines[class_level_src[p] + 1]
          /\ \A p, q \in DOMAIN class_level_src :
                 p < q => class_level_src[p] < class_level_src[q])

\* C10 witness: an accumulator that holds a line from before a documentation
\* run, the run, and the rewound header line.
C10_Witness ==
    /\ pc = "done"
    /\ rewinds # {}
    /\ Len(class_level_src) >= 3
    /\ class_level_src[1] < xml_start
    /\ \E m \in rewinds : InClassLevel(m) = 1

\* ------------------------------------------------------------ main claims

\* the existing files argument number a matches
MatchesOf(a) == {k \in DOMAIN FileSystem : GlobMatch(args_files[a], FileSystem[k])}

HasCsSuffix(name) ==
    /\ Len(name) >= 3
    /\ name[Len(name) - 2] = "."
    /\ name[Len(name) - 1] = "c"
    /\ name[Len(name)] = "s"

\* no existing file with the .cs extension matches any argument
NoCsFileMatches ==
    \A a \in DOMAIN args_files : \A k \in MatchesOf(a) : ~HasCsSuffix(FileSystem[k])

\* the list of names is empty after expansion and filtering: an argument
\* that matches existing files contributes those, an argument that matches
\* nothing contributes itself
NoCsNameLeft ==
    \A a \in DOMAIN args_files :
        IF MatchesOf(a) # {}
        THEN \A k \in MatchesOf(a) : ~HasCsSuffix(FileSystem[k])
        ELSE ~HasCsSuffix(args_files[a])

\* C11 as stated: when no existing .cs file matches the arguments, the run
\* ends with exit status 1 and no file is processed.
C11_NoMatchingFileExits ==
    (mpc \in {"exit", "done"} /\ NoCsFileMatches)
        => (exit_status = 1 /\ started = <<>>)

\* C11 amended: when the list of names is empty after expansion (an
\* unmatched argument kept as a literal name) and filtering to .cs, main ends
\* with exit status 1 and has processed no file; in every other case the
\* loop over the files is entered and the run ends with status 0.
C11_EmptyListExits ==
    /\ [](NoCsNameLeft =>
            /\ started = <<>> /\ posts = <<>> /\ previews = <<>>
            /\ mpc \in {"expand", "filter", "check", "exit"})
    /\ [](mpc \in {"exit", "done"} => (exit_status = 1 <=> NoCsNameLeft))
    /\ [](mpc = "exit" => exit_status = 1)
    /\ (NoCsNameLeft ~> (mpc = "exit" /\ exit_status = 1))

\* C11 witness: a run that expanded its arguments to an existing file
\* without the extension and has exited with status 1.
C11_Witness ==
    /\ mpc = "exit"
    /\ exit_status = 1
    /\ all_files # <<>>
    /\ cs_files = <<>>
    /\ NoCsNameLeft

\* <<f1, k1>> comes before <<f2, k2>> in list order
Before(x, y) == x[1] < y[1] \/ (x[1] = y[1] /\ x[2] < y[2])

\* the file at index f of cs_files is read and chunked without an error
ReadableAt(f) ==
    /\ cs_files[f + 1] # F_bad
    /\ \E k \in DOMAIN FileSystem : FileSystem[k] = cs_files[f + 1]

\* the chunks main() has to submit: every chunk of every readable file
Due ==
    UNION {{<<f, k>> : k \in 0..(ChunkCount(cs_files[f + 1]) - 1)} :
               f \in {g \in 0..(Len(cs_files) - 1) : ReadableAt(g)}}

\* the submissions attempted so far
Posted == {posts[p] : p \in DOMAIN posts}

\* C12: in upload mode a failed submission does not stop the run: the
\* submissions attempted are in list order without repetition, a failure
\* leaves the inner loop at the next chunk, and at the end every chunk of
\* every readable file has been attempted exactly once.
C12_FailedUploadDoesNotStop ==
    /\ [](\A p, q \in DOMAIN posts : p < q => Before(posts[p], posts[q]))
    /\ [][first_failed' # first_failed =>
            /\ mpc' = "chunks"
            /\ idx' = idx + 1
            /\ fidx' = fidx
            /\ posts' = Append(posts, <<fidx, idx>>)]_vars
    /\ []((mpc = "done" /\ ~args_test) => Posted = Due)
    /\ (~args_test /\ mpc = "chunks") ~> mpc = "done"

\* C12 witness: an upload run that ended after a failed submission which
\* was followed by a chunk of the same file and by a chunk of a later file.
C12_Witness ==
    /\ mpc = "done"
    /\ ~args_test
    /\ first_failed # 0
    /\ first_failed + 2 <= Len(posts)
    /\ posts[first_failed + 1][1] = posts[first_failed][1]
    /\ posts[Len(posts)][1] > posts[first_failed][1]

\* the indices 0 .. n-1 in order
UpTo(n) == [k \in 1..n |-> k - 1]

\* the indices below n of the files that cannot be read, in order
RECURSIVE UnreadableBelow(_)
UnreadableBelow(n) ==
    IF n = 0 THEN <<>>
    ELSE UnreadableBelow(n - 1) \o (IF ReadableAt(n - 1) THEN <<>> ELSE <<n - 1>>)

\* C13: when reading or chunking a file fails, main reports that file,
\* submits (or previews) none of its chunks and goes on with the next file;
\* every file is started in list order and the run reaches 'Done!'.
C13_FileErrorReportedAndSkipped ==
    /\ [][reported' # reported =>
            /\ reported' = Append(reported, fidx)
            /\ ~ReadableAt(fidx)
            /\ fidx' = fidx + 1
            /\ mpc' = "files"
            /\ posts' = posts
            /\ previews' = previews]_vars
    /\ [](\A r \in DOMAIN reported :
              /\ \A p \in DOMAIN posts : posts[p][1] # reported[r]
              /\ \A p \in DOMAIN previews : previews[p][1] # reported[r])
    /\ [](started = UpTo(Len(started)) /\ reported = UnreadableBelow(Len(started)))
    /\ [](mpc = "done" => (Len(started) = Len(cs_files) /\ exit_status = 0))
    /\ (reported # <<>> ~> mpc = "done")

\* C13 witness: a finished upload run in which a file failed and a later
\* file had its chunks submitted.
C13_Witness ==
    /\ mpc = "done"
    /\ reported # <<>>
    /\ posts # <<>>
    /\ posts[Len(posts)][1] > reported[1]

\* ---------------------------------------------------- scanner claims, II

\* the trimmed line k starts with '//'
CommentAt(k) == StartsWith(Strip(lines[k + 1]), <<"/", "/">>)

\* C14 as stated: the line the cursor rewinds to is not a documentation
\* start; the next iteration of the outer loop appends it to the
\* accumulator from the property/field or default branch and advances the
\* cursor by exactly one.
C14_RewoundLineNotDocumentation ==
    [][(pc = "scan" /\ i \in rewinds) =>
          /\ ~DocStartAt(i)
          /\ class_level_content' = Append(class_level_content, lines[i + 1])
          /\ i' = i + 1
          /\ pc' = "scan"]_vars

\* C14 amended: the cursor rewinds to the first non-blank line after the
\* documentation run; that line holds '(' and does not start with '//', so
\* it never starts with '///'.  Unless it starts with '/**' the next
\* iteration of the outer loop appends it to the accumulator (property/field
\* or default branch), advances the cursor by exactly one and emits nothing;
\* if it starts with '/**' the next iteration starts a new documentation
\* run on it.  Either way every return to the outer loop leaves the cursor
\* beyond the line on which the iteration began.
C14_RewoundLineDispatched ==
    /\ [][rewinds' # rewinds =>
            /\ i' = SigOf(xml_start)
            /\ rewinds' = rewinds \cup {i'}
            /\ pc' = "scan"]_vars
    /\ [](\A m \in rewinds :
              /\ \E q \in DOMAIN lines[m + 1] : lines[m + 1][q] = "("
              /\ ~CommentAt(m))
    /\ [][(pc = "scan" /\ i \in rewinds) =>
            IF StartsWith(Strip(lines[i + 1]), <<"/", "*", "*">>)
            THEN /\ pc' = "doc"
                 /\ xml_start' = i
                 /\ i' = i
                 /\ class_level_content' = class_level_content
            ELSE /\ class_level_content' = Append(class_level_content, lines[i + 1])
                 /\ i' = i + 1
                 /\ pc' = "scan"
                 /\ chunks' = chunks]_vars
    /\ [][(pc # "scan" /\ pc' = "scan") => i' > xml_start]_vars

\* C14 witness: the rewound header line was appended by the next iteration
\* and the cursor is one line further.
C14_Witness ==
    /\ pc = "scan"
    /\ i - 1 \in rewinds
    /\ ~DocStartAt(i - 1)
    /\ class_level_src # <<>>
    /\ class_level_src[Len(class_level_src)] = i - 1
    /\ Len(class_level_src) > Len(xml_doc_lines)

\* C15: when a documentation branch ends, every line of its documentation
\* run is in the METHOD chunk just emitted or has been appended to the
\* class-level accumulator, also when the run (with the blank lines after
\* it) reaches the end of the file.
C15_DocRunLinesKept ==
    [][(InDocBranch /\ pc' = "scan") =>
          \A k \in xml_start..(xml_start + Len(xml_doc_lines) - 1) :
              \/ /\ chunks' # chunks
                 /\ CountIn(chunk_src'[Len(chunk_src')].src, k) = 1
              \/ /\ chunks' = chunks
                 /\ CountIn(class_level_src', k) = 1]_vars

\* the first line from m on with '{', or N
FirstBrace(m) == Least({k \in m..(N - 1) : HasOpenBraceAt(k)} \cup {N})

\* the number of times character c occurs on line k
CharsAt(k, c) == Cardinality({q \in DOMAIN lines[k + 1] : lines[k + 1][q] = c})

\* C16: the body of a METHOD chunk is delimited by the brace counter.  The
\* counter is seeded with ('{' minus '}') of the first header line with '{';
\* a body line is appended only while the counter is above zero and adjusts
\* it by its own brace counts; the chunk ends with the first line after
\* which the counter is zero or below, or with the last line of the file;
\* a first brace line that leaves the counter at zero or below ends the
\* chunk itself.
C16_BodyDelimitedByBraceCounter ==
    /\ []((pc \in {"found", "body"} /\ found_opening_brace) =>
            LET b == FirstBrace(method_start)
            IN  /\ b < i
                /\ brace_count = Depth(b, i - 1)
                /\ method_lines = Slice(method_start, i)
                /\ \A k \in b..(i - 2) : Depth(b, k) > 0)
    /\ [][(pc = "header" /\ pc' = "found" /\ found_opening_brace') =>
            /\ i' = FirstBrace(method_start) + 1
            /\ brace_count' = CharsAt(i, "{") - CharsAt(i, "}")]_vars
    /\ [][(pc = "body" /\ i' # i) =>
            /\ brace_count > 0
            /\ i' = i + 1
            /\ method_lines' = Append(method_lines, lines[i + 1])
            /\ brace_count' = brace_count + CharsAt(i, "{") - CharsAt(i, "}")]_vars
    /\ [][chunks' # chunks =>
            /\ pc = "body"
            /\ i = CloseOf(FirstBrace(method_start)) + 1
            /\ (brace_count <= 0 \/ i = N)
            /\ (Depth(FirstBrace(method_start), FirstBrace(method_start)) <= 0
                    => i = FirstBrace(method_start) + 1)
            /\ chunk_src'[Len(chunk_src')].src =
                   Range(xml_start, xml_start + Len(xml_doc_lines))
                   \o Range(method_start, i)]_vars

\* C16 witness: a chunk whose body was opened on one line and closed on a
\* later one, with a line left after it in the file.
C16_Witness ==
    /\ pc = "scan"
    /\ chunks # <<>>
    /\ LET c == chunk_src[Len(chunk_src)]
           b == FirstBrace(c.sig)
       IN  /\ i = c.src[Len(c.src)] + 1
           /\ i - 1 > b
           /\ i < N
           /\ Depth(b, i - 1) = 0
           /\ Depth(b, b) > 0

\* C17: the header scan is unbounded.  From the candidate line on it
\* appends every line, whatever the line holds, and goes on until a line
\* with '{' or the end of the file; when a '{' is found, all the lines from
\* the candidate line through that line are in the one METHOD chunk the
\* branch emits.
C17_HeaderScanUnbounded ==
    /\ [](pc = "header" =>
            /\ method_start <= i
            /\ method_lines = Slice(method_start, i)
            /\ \A k \in method_start..(i - 1) : ~HasOpenBraceAt(k))
    /\ [][pc = "header" =>
            IF i < N
            THEN /\ i' = i + 1
                 /\ method_lines' = Append(method_lines, lines[i + 1])
                 /\ IF HasOpenBraceAt(i)
                    THEN pc' = "found" /\ found_opening_brace'
                    ELSE pc' = "header"
            ELSE pc' = "found" /\ ~found_opening_brace' /\ i' = i]_vars
    /\ [][chunks' # chunks =>
            /\ Len(chunks') = Len(chunks) + 1
            /\ FirstBrace(method_start) < N
            /\ \A k \in method_start..FirstBrace(method_start) :
                   CountIn(chunk_src'[Len(chunk_src')].src, k) = 1
            /\ \A j \in DOMAIN chunk_src :
                   \A k \in method_start..FirstBrace(method_start) :
                       CountIn(chunk_src[j].src, k) = 0]_vars

\* C17 witness: a chunk whose header ran over a ';'-terminated candidate line
\* and a blank or documentation line before it found the '{'.
C17_Witness ==
    /\ pc = "scan"
    /\ chunks # <<>>
    /\ LET c == chunk_src[Len(chunk_src)]
           b == FirstBrace(c.sig)
       IN  /\ b >= c.sig + 2
           /\ b < i
           /\ PropertyAt(c.sig)
           /\ \E k \in (c.sig + 1)..(b - 1) : DocStartAt(k) \/ ~NotBlankAt(k)
           /\ \A k \in c.sig..b : CountIn(c.src, k) = 1

\* C18: the blank lines right after a documentation run are skipped without
\* being recorded.  A skipping step moves the cursor by one and changes
\* neither the accumulator nor the chunks nor the collected documentation;
\* when the next line is inspected, exactly the blank lines between the run
\* and that line have been skipped; a skipped line is in no METHOD chunk and
\* not in the accumulator, during the scan and in its result, whatever
\* becomes of the run.
C18_BlankLinesAfterRunUnrecorded ==
    /\ [][(pc = "blank" /\ i' # i) =>
            /\ i < N
            /\ Strip(lines[i + 1]) = <<>>
            /\ i' = i + 1
            /\ class_level_content' = class_level_content
            /\ chunks' = chunks
            /\ xml_doc_lines' = xml_doc_lines
            /\ pc' = "blank"]_vars
    /\ [](pc = "decide" =>
            /\ i = SigOf(xml_start)
            /\ xml_doc_lines = Slice(xml_start, RunEnd(xml_start))
            /\ \A k \in RunEnd(xml_start)..(i - 1) : k \in skipped)
    /\ [](\A k \in skipped :
            /\ Strip(lines[k + 1]) = <<>>
            /\ InChunks(k) = 0
            /\ InClassLevel(k) = 0)

\* C18 witness: a finished scan that skipped a blank line between a
\* documentation run and the signature of the METHOD chunk emitted for it.
C18_Witness ==
    /\ pc = "done"
    /\ \E k \in skipped : \E j \in DOMAIN chunk_src :
           /\ chunk_src[j].doc < k
           /\ k < chunk_src[j].sig
           /\ InChunks(k) = 0

\* line m is the first line of a method without documentation: the outer
\* loop appended it to the accumulator, it is no documentation line, it
\* holds '(' and a '{' follows on it or after it
UndocumentedMethodAt(m) ==
    /\ InClassLevel(m) = 1
    /\ NotDocAt(m)
    /\ CandidateAt(m)
    /\ FirstBrace(m) < N

\* C19 as stated: every METHOD chunk begins with a documentation start, and
\* a method without documentation never yields a METHOD chunk: none of its
\* lines, from the signature line through the line that closes its body, is
\* in a METHOD chunk.
C19_UndocumentedMethodNeverChunked ==
    /\ \A j \in DOMAIN chunk_src : DocStartAt(chunk_src[j].src[1])
    /\ \A m \in 0..(N - 1) :
           UndocumentedMethodAt(m) =>
               \A k \in m..CloseOf(FirstBrace(m)) : InChunks(k) = 0

\* C19 amended: a METHOD chunk is emitted only from the documentation
\* branch and its first line is the documentation start that opened the
\* branch; every line on which an iteration of the outer loop begins that is
\* no documentation start (the signature line of a method without
\* documentation among them) is appended alone to the accumulator, the
\* cursor advances by one and no chunk is emitted; such a line is in no
\* METHOD chunk.  The lines that follow the signature line are not covered:
\* a documentation start among them opens a branch of its own.
C19_MethodChunkOnlyFromDocBranch ==
    /\ [](\A j \in DOMAIN chunk_src :
              /\ DocStartAt(chunk_src[j].src[1])
              /\ chunk_src[j].src[1] = chunk_src[j].doc
              /\ chunks[j].chunk_type = "method")
    /\ [][chunks' # chunks =>
              /\ InDocBranch
              /\ xml_doc_lines # <<>>
              /\ Head(xml_doc_lines) = lines[xml_start + 1]
              /\ DocStartAt(xml_start)
              /\ chunk_src'[Len(chunk_src')].doc = xml_start]_vars
    /\ [][(pc = "scan" /\ i < N /\ ~DocStartAt(i)) =>
              /\ class_level_content' = Append(class_level_content, lines[i + 1])
              /\ class_level_src' = Append(class_level_src, i)
              /\ i' = i + 1
              /\ pc' = "scan"
              /\ chunks' = chunks]_vars
    /\ [](\A m \in 0..(N - 1) : UndocumentedMethodAt(m) => InChunks(m) = 0)

\* C19 witness: a finished scan whose first line is the signature line of a
\* method without documentation, held by the accumulator, with a METHOD
\* chunk emitted for a documentation run further down.
C19_Witness ==
    /\ pc = "done"
    /\ UndocumentedMethodAt(0)
    /\ HasOpenBraceAt(0)
    /\ chunks # <<>>
    /\ chunk_src[1].doc > 0

\* the text of the lines with the indices src, newline-joined
TextOf(src) == Join([p \in DOMAIN src |-> lines[src[p] + 1]])

\* C20: no source line is emitted twice.  The line indices held by the
\* METHOD chunks and by the accumulator are pairwise disjoint, no index
\* occurs twice within a chunk or within the accumulator, and the chunks
\* returned hold exactly the text of those lines.
C20_NoLineEmittedTwice ==
    /\ \A k \in 0..(N - 1) : InChunks(k) + InClassLevel(k) <= 1
    /\ \A j1, j2 \in DOMAIN chunk_src :
           j1 # j2 =>
               {chunk_src[j1].src[p] : p \in DOMAIN chunk_src[j1].src}
               \cap {chunk_src[j2].src[p] : p \in DOMAIN chunk_src[j2].src} = {}
    /\ \A j \in DOMAIN chunk_src : chunks[j].text = TextOf(chunk_src[j].src)
    /\ class_level_content = [p \in DOMAIN class_level_src |-> lines[class_level_src[p] + 1]]
    /\ pc = "done" =>
           \A r \in DOMAIN result :
               \/ \E j \in DOMAIN chunks : result[r] = chunks[j]
               \/ /\ r = 1
                  /\ result[r].text = Strip(TextOf(class_level_src))

\* C20 witness: a finished scan with a METHOD chunk and a rewind in which
\* every line of the file was emitted, each one once.
C20_Witness ==
    /\ pc = "done"
    /\ rewinds # {}
    /\ chunks # <<>>
    /\ \A k \in 0..(N - 1) : InChunks(k) + InClassLevel(k) = 1

====
